---------------------------- MODULE Spec2Model ----------------------------
(***************************************************************************)
(* A model of boost/charconv's emulated 128-bit integer                    *)
(* (detail/emulated128.hpp) and of fast_float's digit comparison           *)
(* (detail/fast_float/digit_comparison.hpp).                               *)
(*                                                                         *)
(* Every function of the two headers is pure, so each is an operator,      *)
(* computed as the code computes it, and a specification draws a call      *)
(* (the function and its arguments) in Init and applies it in one action.  *)
(*                                                                         *)
(* TLC's integers are 32 bits wide.  std::uint64_t is therefore modelled   *)
(* with WordBits = 2 * HalfBits bits and std::uint32_t with HalfBits bits; *)
(* every 64 and 32 of the code is written WordBits and HalfBits, and       *)
(* every unsigned operation is reduced modulo 2^WordBits where the code's  *)
(* is reduced modulo 2^64.                                                 *)
(***************************************************************************)
EXTENDS Integers, Sequences, FiniteSets, TLC

\* pc: the position in the running function ("call" before it starts, "done"
\* after it returns); call: the function and its arguments; frame: its local
\* variables; ret: what it returned.
VARIABLES pc, call, frame, ret

vars == <<pc, call, frame, ret>>

(***************************************************************************)
(* Widths                                                                  *)
(***************************************************************************)
\* The width of std::uint32_t in the model (32 in the code).
HalfBits == 2

\* The width of std::uint64_t in the model (64 in the code).
WordBits == 2 * HalfBits

U32 == 2 ^ HalfBits
U64 == 2 ^ WordBits
UINT64_MAX == U64 - 1

\* static_cast<std::uint64_t>(v), and the wrap of an unsigned 64-bit result.
ToU64(v) == v % U64

\* static_cast<std::uint32_t>(v)
ToU32(v) == v % U32

\* v >> n and v << n on std::uint64_t
Shr(v, n) == v \div (2 ^ n)
Shl(v, n) == ToU64(v * (2 ^ n))

\* The value returned before any call has been applied.
NoRet == [none |-> TRUE]

\* The locals of a function that is modelled as one step.
NoFrame == [none |-> TRUE]

(***************************************************************************)
(* emulated128.hpp: struct uint128                                         *)
(***************************************************************************)
\* uint128(high_, low_)
uint128(high_, low_) == [high |-> high_, low |-> low_]

\* The mathematical value of a uint128.
Value128(v) == v.high * U64 + v.low

\* A constructor that zero-extends a negative value.
uint128_from_zero_extended(v) == [high |-> 0, low |-> ToU64(v)]

\* SIGNED_CONSTRUCTOR / UNSIGNED_CONSTRUCTOR (and the assignment operators,
\* which set the same two fields): an unsigned v is never below zero.
uint128_from(v) == [high |-> IF v < 0 THEN UINT64_MAX ELSE 0, low |-> ToU64(v)]

\* INTEGER_CONVERSION_OPERATOR
uint128_to_integer(v) == v.low

\* operator==(uint128, integer): lhs.high == 0 && rhs >= 0 && lhs.low == rhs
EqInt(lhs, rhs) == lhs.high = 0 /\ rhs >= 0 /\ lhs.low = ToU64(rhs)

\* operator!=(uint128, integer)
NeInt(lhs, rhs) == ~EqInt(lhs, rhs)

\* operator<(uint128, integer): lhs.high == 0U && rhs > 0 && lhs.low < rhs
LtInt(lhs, rhs) == lhs.high = 0 /\ rhs > 0 /\ lhs.low < ToU64(rhs)

\* operator<=(uint128, integer)
LeInt(lhs, rhs) == lhs.high = 0 /\ rhs >= 0 /\ lhs.low <= ToU64(rhs)

\* operator> without the test of the sign of rhs.
GtInt_unsigned(lhs, rhs) == lhs.high > 0 \/ lhs.low > ToU64(rhs)

\* operator>(uint128, integer): lhs.high > 0U || rhs < 0 || lhs.low > rhs
GtInt(lhs, rhs) == lhs.high > 0 \/ rhs < 0 \/ lhs.low > ToU64(rhs)

\* operator>=(uint128, integer)
GeInt(lhs, rhs) == lhs.high > 0 \/ rhs < 0 \/ lhs.low >= ToU64(rhs)

\* operator==(uint128, uint128)
Eq128(lhs, rhs) == lhs.high = rhs.high /\ lhs.low = rhs.low

\* operator!=(uint128, uint128)
Ne128(lhs, rhs) == ~Eq128(lhs, rhs)

\* operator<(uint128, uint128)
Lt128(lhs, rhs) == IF lhs.high = rhs.high THEN lhs.low < rhs.low
                   ELSE lhs.high < rhs.high

\* operator<=(uint128, uint128)
Le128(lhs, rhs) == ~Lt128(rhs, lhs)

\* operator>(uint128, uint128)
Gt128(lhs, rhs) == Lt128(rhs, lhs)

\* operator>=(uint128, uint128)
Ge128(lhs, rhs) == ~Lt128(lhs, rhs)

\* The six operators by name.
CmpOps == {"eq", "ne", "lt", "le", "gt", "ge"}

CompareInt(o, lhs, rhs) ==
    CASE o = "eq" -> EqInt(lhs, rhs)
      [] o = "ne" -> NeInt(lhs, rhs)
      [] o = "lt" -> LtInt(lhs, rhs)
      [] o = "le" -> LeInt(lhs, rhs)
      [] o = "gt" -> GtInt(lhs, rhs)
      [] o = "ge" -> GeInt(lhs, rhs)

Compare128(o, lhs, rhs) ==
    CASE o = "eq" -> Eq128(lhs, rhs)
      [] o = "ne" -> Ne128(lhs, rhs)
      [] o = "lt" -> Lt128(lhs, rhs)
      [] o = "le" -> Le128(lhs, rhs)
      [] o = "gt" -> Gt128(lhs, rhs)
      [] o = "ge" -> Ge128(lhs, rhs)

(***************************************************************************)
(* uint128::operator+=(std::uint64_t n), one operator per build variant.   *)
(***************************************************************************)
\* addc with the carry out lost.
addc_no_carry(a, b, carry_in) ==
    [sum |-> ToU64(a + b + carry_in), carry |-> 0]

\* The add-with-carry intrinsics (__builtin_addcll, _addcarry_u64,
\* __builtin_ia32_addcarryx_u64): the sum modulo 2^64 and the carry out.
addc(a, b, carry_in) ==
    [sum |-> ToU64(a + b + carry_in), carry |-> (a + b + carry_in) \div U64]

\* #if BOOST_CHARCONV_HAS_BUILTIN(__builtin_addcll)
AddAssign_addcll(v, n) ==
    LET lo == addc(v.low, n, 0)
        hi == addc(v.high, 0, lo.carry)
    IN  uint128(hi.sum, lo.sum)

\* #elif BOOST_CHARCONV_HAS_BUILTIN(__builtin_ia32_addcarryx_u64)
AddAssign_addcarryx(v, n) ==
    LET lo == addc(v.low, n, 0)
        hi == addc(v.high, 0, lo.carry)
    IN  uint128(hi.sum, lo.sum)

\* #elif defined(BOOST_MSVC) && defined(_M_X64)
AddAssign_msvc(v, n) ==
    LET lo == addc(v.low, n, 0)
        hi == addc(v.high, 0, lo.carry)
    IN  uint128(hi.sum, lo.sum)

\* operator+= as a truncating add of the low halves.
AddAssign_truncating(v, n) == uint128(v.high, ToU64(v.low + n))

\* #else: auto sum = low + n; high += (sum < low ? 1 : 0); low = sum;
AddAssign_manual(v, n) ==
    LET sum == ToU64(v.low + n)
    IN  uint128(ToU64(v.high + (IF sum < v.low THEN 1 ELSE 0)), sum)

AddImpls == {"addcll", "addcarryx", "msvc", "manual"}

AddAssign(impl, v, n) ==
    CASE impl = "addcll"    -> AddAssign_addcll(v, n)
      [] impl = "addcarryx" -> AddAssign_addcarryx(v, n)
      [] impl = "msvc"      -> AddAssign_msvc(v, n)
      [] impl = "manual"    -> AddAssign_manual(v, n)

(***************************************************************************)
(* The wide multiplications.                                               *)
(***************************************************************************)
\* umul64(x, y): x * static_cast<std::uint64_t>(y), or __emulu(x, y)
umul64(x, y) == ToU64(x * y)

\* The 64-bit sum (bd >> 32) + uint32(ad) + uint32(bc), before any wrap.
umul128_intermediate(x, y) ==
    LET a == ToU32(Shr(x, HalfBits))
        b == ToU32(x)
        c == ToU32(Shr(y, HalfBits))
        d == ToU32(y)
    IN  Shr(umul64(b, d), HalfBits) + ToU32(umul64(a, d)) + ToU32(umul64(b, c))

\* The high sum without the carry out of the middle column.
umul128_high_sum_no_carry(x, y) ==
    LET a == ToU32(Shr(x, HalfBits))
        b == ToU32(x)
        c == ToU32(Shr(y, HalfBits))
        d == ToU32(y)
    IN  umul64(a, c) + Shr(umul64(a, d), HalfBits) + Shr(umul64(b, c), HalfBits)

\* The 64-bit sum ac + (intermediate >> 32) + (ad >> 32) + (bc >> 32),
\* before any wrap.
umul128_high_sum(x, y) ==
    LET a == ToU32(Shr(x, HalfBits))
        b == ToU32(x)
        c == ToU32(Shr(y, HalfBits))
        d == ToU32(y)
        intermediate == ToU64(umul128_intermediate(x, y))
    IN  umul64(a, c) + Shr(intermediate, HalfBits)
          + Shr(umul64(a, d), HalfBits) + Shr(umul64(b, c), HalfBits)

\* The 64-bit sum (intermediate << 32) + uint32(bd), before any wrap.
umul128_low_sum(x, y) ==
    LET b == ToU32(x)
        d == ToU32(y)
        intermediate == ToU64(umul128_intermediate(x, y))
    IN  Shl(intermediate, HalfBits) + ToU32(umul64(b, d))

\* umul128, #else: the four-way 32-bit decomposition.
umul128_portable(x, y) ==
    uint128(ToU64(umul128_high_sum(x, y)), ToU64(umul128_low_sum(x, y)))

\* umul128, BOOST_CHARCONV_HAS_INT128: the native 128-bit product.
umul128_int128(x, y) ==
    LET result == (x * y) % (U64 * U64)
    IN  uint128(ToU64(Shr(result, WordBits)), ToU64(result))

\* umul128, BOOST_CHARCONV_HAS_MSVC_64BIT_INTRINSICS: _umul128(x, y, &high)
umul128_msvc(x, y) ==
    uint128((x * y) \div U64, (x * y) % U64)

\* umul128, __arm__: high = __umulh(x, y); low = x * y;
umul128_arm(x, y) ==
    uint128((x * y) \div U64, ToU64(x * y))

\* The builds the preprocessor selects among.
Builds == {"int128", "msvc", "arm", "portable"}

umul128(build, x, y) ==
    CASE build = "int128"   -> umul128_int128(x, y)
      [] build = "msvc"     -> umul128_msvc(x, y)
      [] build = "arm"      -> umul128_arm(x, y)
      [] build = "portable" -> umul128_portable(x, y)

\* umul128_upper64: the native product, __umulh, or the decomposition
\* (an __arm__ build without the other two macros takes the #else branch).
umul128_upper64(build, x, y) ==
    CASE build = "int128"   -> ToU64(Shr((x * y) % (U64 * U64), WordBits))
      [] build = "msvc"     -> (x * y) \div U64
      [] build = "arm"      -> ToU64(umul128_high_sum(x, y))
      [] build = "portable" -> ToU64(umul128_high_sum(x, y))

\* umul192_upper128: auto r = umul128(x, y.high); r += umul128_upper64(x, y.low);
umul192_upper128(build, add, x, y) ==
    AddAssign(add, umul128(build, x, y.high), umul128_upper64(build, x, y.low))


(***************************************************************************)
(* Calls of the wide-integer functions.                                    *)
(***************************************************************************)
Word == 0 .. UINT64_MAX

\* The values of the native integer types, signed and unsigned, that the
\* constructors and the mixed comparison operators take.
NativeInt == (0 - U64 \div 2) .. UINT64_MAX

\* The high halves the comparison calls are drawn with.
HighSamples == {0, 1, UINT64_MAX}

\* The pairs of a multiplication and an addition variant umul192_upper128
\* is drawn with: each variant of either function is in one pair.
Configs == {<<"int128", "addcll">>, <<"msvc", "msvc">>,
            <<"arm", "addcarryx">>, <<"portable", "manual">>}

IsMulCall(c) ==
    \/ \E b \in Builds, x \in Word, y \in Word :
          c = [op |-> "umul128", build |-> b, x |-> x, y |-> y]
    \/ \E k \in Configs, x \in Word, h \in Word, l \in Word :
          c = [op |-> "umul192_upper128", build |-> k[1], add |-> k[2],
               x |-> x, y |-> uint128(h, l)]

IsAddCall(c) ==
    \E a \in AddImpls, h \in Word, l \in Word, n \in Word :
        c = [op |-> "add_assign", add |-> a, v |-> uint128(h, l), n |-> n]

IsCmpCall(c) ==
    \/ \E h \in HighSamples, l \in Word, n \in NativeInt :
          c = [op |-> "compare_int", lhs |-> uint128(h, l), rhs |-> n]
    \/ \E h \in HighSamples, l \in Word, h2 \in HighSamples, l2 \in Word :
          c = [op |-> "compare_128", lhs |-> uint128(h, l),
               rhs |-> uint128(h2, l2)]
    \/ \E n \in NativeInt : c = [op |-> "construct", v |-> n]

Do_umul128 ==
    /\ pc = "call"
    /\ call.op = "umul128"
    /\ ret' = umul128(call.build, call.x, call.y)
    /\ pc' = "done"
    /\ UNCHANGED <<call, frame>>

Do_umul192_upper128 ==
    /\ pc = "call"
    /\ call.op = "umul192_upper128"
    /\ ret' = umul192_upper128(call.build, call.add, call.x, call.y)
    /\ pc' = "done"
    /\ UNCHANGED <<call, frame>>

Do_add_assign ==
    /\ pc = "call"
    /\ call.op = "add_assign"
    /\ ret' = AddAssign(call.add, call.v, call.n)
    /\ pc' = "done"
    /\ UNCHANGED <<call, frame>>

\* The six mixed operators applied to the same operands.
Do_compare_int ==
    /\ pc = "call"
    /\ call.op = "compare_int"
    /\ ret' = [o \in CmpOps |-> CompareInt(o, call.lhs, call.rhs)]
    /\ pc' = "done"
    /\ UNCHANGED <<call, frame>>

\* The six uint128 operators applied to the same operands.
Do_compare_128 ==
    /\ pc = "call"
    /\ call.op = "compare_128"
    /\ ret' = [o \in CmpOps |-> Compare128(o, call.lhs, call.rhs)]
    /\ pc' = "done"
    /\ UNCHANGED <<call, frame>>

Do_construct ==
    /\ pc = "call"
    /\ call.op = "construct"
    /\ ret' = uint128_from(call.v)
    /\ pc' = "done"
    /\ UNCHANGED <<call, frame>>

InitMul == pc = "call" /\ ret = NoRet /\ frame = NoFrame /\ IsMulCall(call)
NextMul == Do_umul128 \/ Do_umul192_upper128
SpecMul == InitMul /\ [][NextMul]_vars

InitAdd == pc = "call" /\ ret = NoRet /\ frame = NoFrame /\ IsAddCall(call)
NextAdd == Do_add_assign
SpecAdd == InitAdd /\ [][NextAdd]_vars

InitCmp == pc = "call" /\ ret = NoRet /\ frame = NoFrame /\ IsCmpCall(call)
NextCmp == Do_compare_int \/ Do_compare_128 \/ Do_construct
SpecCmp == InitCmp /\ [][NextCmp]_vars

(***************************************************************************)
(* Claims about the wide-integer functions.                                *)
(***************************************************************************)
\* The mathematical value of a native integer against that of a uint128.
MathCompare(o, a, b) ==
    CASE o = "eq" -> a = b
      [] o = "ne" -> a # b
      [] o = "lt" -> a < b
      [] o = "le" -> a <= b
      [] o = "gt" -> a > b
      [] o = "ge" -> a >= b

\* C5: for all x and y, every variant of umul128 returns {high, low} with
\* high * 2^64 + low = x * y (so the portable decomposition and the native
\* multiply return the same pair), and none of the three 64-bit sums of the
\* decomposition wraps.
C5_Umul128Exact ==
    (pc = "done" /\ call.op = "umul128") =>
        /\ ret.high \in Word /\ ret.low \in Word
        /\ Value128(ret) = call.x * call.y
        /\ ret = umul128_int128(call.x, call.y)
        /\ umul128_intermediate(call.x, call.y) < U64
        /\ umul128_high_sum(call.x, call.y) < U64
        /\ umul128_low_sum(call.x, call.y) < U64

\* umul128(2^64 - 1, 2) = {1, 2^64 - 2}, by the portable decomposition.
C5_Witness ==
    /\ pc = "done" /\ call.op = "umul128" /\ call.build = "portable"
    /\ call.x = UINT64_MAX /\ call.y = 2
    /\ ret = uint128(1, U64 - 2)

\* C6: for all x and y, umul192_upper128(x, y) is floor(x * y / 2^64), the
\* upper 128 bits of the 192-bit product, within 128 bits.
C6_Umul192Upper ==
    (pc = "done" /\ call.op = "umul192_upper128") =>
        /\ ret.high \in Word /\ ret.low \in Word
        /\ Value128(ret) = (call.x * Value128(call.y)) \div U64

\* The low half of umul128(x, y.high) plus umul128_upper64(x, y.low) wraps, and
\* the carry has reached the high half.
C6_Witness ==
    /\ pc = "done" /\ call.op = "umul192_upper128"
    /\ umul128(call.build, call.x, call.y.high).low
         + umul128_upper64(call.build, call.x, call.y.low) >= U64
    /\ ret.high = umul128(call.build, call.x, call.y.high).high + 1

\* C7: v += n leaves v = (v + n) mod 2^128: low = (low + n) mod 2^64 and high
\* is incremented, modulo 2^64, exactly when the low sum wrapped; every
\* variant gives the same result.
C7_AddAssignCarry ==
    (pc = "done" /\ call.op = "add_assign") =>
        /\ ret.low = (call.v.low + call.n) % U64
        /\ ret.high = (call.v.high
                        + (IF call.v.low + call.n >= U64 THEN 1 ELSE 0)) % U64
        /\ Value128(ret) = (Value128(call.v) + call.n) % (U64 * U64)
        /\ \A a \in AddImpls : AddAssign(a, call.v, call.n) = ret

\* {0, 2^64 - 1} += 1 gives {1, 0}, by an intrinsic variant.
C7_Witness ==
    /\ pc = "done" /\ call.op = "add_assign" /\ call.add = "addcll"
    /\ call.v = uint128(0, UINT64_MAX) /\ call.n = 1
    /\ ret = uint128(1, 0)

\* C8: each of the six operators agrees with the comparison of the
\* mathematical values: uint128 against uint128 is the lexicographic order on
\* (high, low); uint128 against a native integer n compares high * 2^64 + low
\* with n, so for n < 0 the operators ==, <, <= are false and !=, >, >= true,
\* and exactly one of x < n, x == n, x > n holds.
C8_CompareMath ==
    /\ (pc = "done" /\ call.op = "compare_int") =>
          /\ \A o \in CmpOps :
                ret[o] = MathCompare(o, Value128(call.lhs), call.rhs)
          /\ call.rhs < 0 =>
                /\ ~ret["eq"] /\ ~ret["lt"] /\ ~ret["le"]
                /\ ret["ne"] /\ ret["gt"] /\ ret["ge"]
          /\ Cardinality({o \in {"lt", "eq", "gt"} : ret[o]}) = 1
    /\ (pc = "done" /\ call.op = "compare_128") =>
          /\ \A o \in CmpOps :
                ret[o] = MathCompare(o, Value128(call.lhs), Value128(call.rhs))
          /\ ret["lt"] = (\/ call.lhs.high < call.rhs.high
                          \/ /\ call.lhs.high = call.rhs.high
                             /\ call.lhs.low < call.rhs.low)

\* A uint128 above 2^64 has been compared with a negative native integer.
C8_Witness ==
    /\ pc = "done" /\ call.op = "compare_int"
    /\ call.rhs < 0 /\ call.lhs.high > 0
    /\ ret["gt"] /\ ~ret["eq"] /\ ~ret["lt"]

\* C9 as claimed: a negative v constructs high = all-ones and low = its
\* two's-complement pattern, and for every x and every negative v each
\* operator gives x op v the result of x op uint128(v).
C9_CompareBitPattern ==
    /\ (pc = "done" /\ call.op = "construct" /\ call.v < 0) =>
          ret = uint128(UINT64_MAX, U64 + call.v)
    /\ (pc = "done" /\ call.op = "compare_int" /\ call.rhs < 0) =>
          \A o \in CmpOps :
              ret[o] = Compare128(o, call.lhs, uint128_from(call.rhs))

\* C9 as amended: a negative v constructs high = all-ones and low = its
\* two's-complement pattern, and the mixed operators do not compare with that
\* pattern: against a negative v the operators ==, <, <= are false and !=, >,
\* >= are true for every x, so x op v differs from x op uint128(v) for ==, !=
\* when x = uint128(v), and for <, <=, >, >= when x is below uint128(v).
C9_SignExtendOnly ==
    /\ (pc = "done" /\ call.op = "construct" /\ call.v < 0) =>
          /\ ret = uint128(UINT64_MAX, U64 + call.v)
          /\ ~EqInt(ret, call.v)
    /\ (pc = "done" /\ call.op = "compare_int" /\ call.rhs < 0) =>
          LET w == uint128_from(call.rhs)
          IN  /\ ret = [o \in CmpOps |-> o \in {"ne", "gt", "ge"}]
              /\ Eq128(call.lhs, w) =>
                    /\ ret["eq"] # Compare128("eq", call.lhs, w)
                    /\ ret["ne"] # Compare128("ne", call.lhs, w)
              /\ Lt128(call.lhs, w) =>
                    \A o \in {"lt", "le", "gt", "ge"} :
                        ret[o] # Compare128(o, call.lhs, w)

\* x = uint128(-1) has been compared with -1: the operator == is false.
C9_Witness ==
    /\ pc = "done" /\ call.op = "compare_int" /\ call.rhs = 0 - 1
    /\ call.lhs = uint128(UINT64_MAX, UINT64_MAX)
    /\ ~ret["eq"]

(***************************************************************************)
(* digit_comparison.hpp: parse_mantissa                                    *)
(*                                                                         *)
(* A digit span is a sequence of digits 0 .. 9 (the code's *p - '0'), a    *)
(* pointer into it an index from 1, and its end Len + 1.  The big integer  *)
(* is its mathematical value.  A limb (and std::size_t) has LimbBits bits, *)
(* and the group of eight digits is one of BulkDigits digits.              *)
(***************************************************************************)
\* The width of a limb and of std::size_t in the model (64 in the code).
LimbBits == 14

\* The digits parse_eight_digits reads at once in the model (8 in the code).
BulkDigits == 2

LimbMod == 2 ^ LimbBits

\* static_cast<limb>(v), and the wrap of a limb or std::size_t result.
ToLimb(v) == v % LimbMod

\* The most decimal digits d with 10^d below 2^bits, from d up: 19 for the
\* 64-bit limb and 9 for the 32-bit limb.
RECURSIVE DigitsBelow(_, _)
DigitsBelow(bits, d) ==
    IF 10 ^ (d + 1) < 2 ^ bits THEN DigitsBelow(bits, d + 1) ELSE d

\* std::size_t step = 19;
step == DigitsBelow(LimbBits, 0)

\* powers_of_ten_uint64[]: 1e0 to 1e19
powers_of_ten_uint64 == [i \in 0 .. step |-> 10 ^ i]

\* skip_zeros: its first loop, which compares int_cmp_len digits at once.
RECURSIVE skip_zeros_blocks(_, _)
skip_zeros_blocks(s, first) ==
    IF /\ Len(s) + 1 - first >= BulkDigits
       /\ \A i \in first .. first + BulkDigits - 1 : s[i] = 0
    THEN skip_zeros_blocks(s, first + BulkDigits)
    ELSE first

\* skip_zeros: its second loop, digit by digit.
RECURSIVE skip_zeros_singles(_, _)
skip_zeros_singles(s, first) ==
    IF first # Len(s) + 1 /\ s[first] = 0
    THEN skip_zeros_singles(s, first + 1)
    ELSE first

\* skip_zeros(first, last): the new value of first.
skip_zeros(s, first) == skip_zeros_singles(s, skip_zeros_blocks(s, first))

\* is_truncated: its second loop, digit by digit.
RECURSIVE is_truncated_singles(_, _)
is_truncated_singles(s, first) ==
    IF first = Len(s) + 1 THEN FALSE
    ELSE IF s[first] # 0 THEN TRUE
    ELSE is_truncated_singles(s, first + 1)

\* is_truncated(first, last): whether a digit from first on is not zero.
RECURSIVE is_truncated(_, _)
is_truncated(s, first) ==
    IF Len(s) + 1 - first >= BulkDigits
    THEN IF \E i \in first .. first + BulkDigits - 1 : s[i] # 0
         THEN TRUE
         ELSE is_truncated(s, first + BulkDigits)
    ELSE is_truncated_singles(s, first)

\* parse_eight_digits_unrolled(p): the number the next group of digits denotes.
RECURSIVE parse_eight_digits_unrolled(_, _, _)
parse_eight_digits_unrolled(s, p, n) ==
    IF n = 0 THEN 0
    ELSE parse_eight_digits_unrolled(s, p, n - 1) * 10 + s[p + n - 1]

\* parse_eight_digits(p, value, counter, count)
parse_eight_digits(s, l) ==
    [l EXCEPT !.value = ToLimb(l.value * (10 ^ BulkDigits)
                                + parse_eight_digits_unrolled(s, l.p, BulkDigits)),
              !.p = l.p + BulkDigits,
              !.counter = ToLimb(l.counter + BulkDigits),
              !.digits = ToLimb(l.digits + BulkDigits)]

\* parse_one_digit that leaves p where it is.
parse_one_digit_same_p(s, l) ==
    [l EXCEPT !.value = ToLimb(l.value * 10 + s[l.p]),
              !.counter = ToLimb(l.counter + 1),
              !.digits = ToLimb(l.digits + 1)]

\* parse_one_digit(p, value, counter, count)
parse_one_digit(s, l) ==
    [l EXCEPT !.value = ToLimb(l.value * 10 + s[l.p]),
              !.p = l.p + 1,
              !.counter = ToLimb(l.counter + 1),
              !.digits = ToLimb(l.digits + 1)]

\* add_native(big, power, value): big.mul(power); big.add(value);
add_native(big, power, value) == big * power + value

\* round_up_bigint that leaves count as it is.
round_up_bigint_same_count(l) ==
    [l EXCEPT !.result = add_native(l.result, 10, 1)]

\* round_up_bigint(big, count)
round_up_bigint(l) ==
    [l EXCEPT !.result = add_native(l.result, 10, 1),
              !.digits = ToLimb(l.digits + 1)]

\* The span p and pend point into.
Span(c, l) == IF l.span = "integer" THEN c.integer ELSE c.fraction

\* Lines 311-323: the locals, and the leading zeros of the integer span.
\* With them go the count of the iterations of the two outer loops begun so
\* far, and p as it was when the last of them began.
parse_begin(c) ==
    <<"loop", [span |-> "integer", p |-> skip_zeros(c.integer, 1),
               pend |-> Len(c.integer) + 1, counter |-> 0, digits |-> 0,
               value |-> 0, result |-> 0, iterations |-> 0, entry |-> 1]>>

\* while (p != pend), lines 325 and 373
parse_loop(c, l) ==
    IF l.p # l.pend
    THEN <<"bulk", [l EXCEPT !.iterations = l.iterations + 1, !.entry = l.p]>>
    ELSE IF l.span = "integer" THEN <<"fraction", l>>
    ELSE <<"tail", l>>

\* One test, and one iteration, of the loop of parse_eight_digits, lines
\* 327-333 and 375-381; the subtractions are of std::size_t.
parse_bulk(c, l) ==
    IF /\ c.uc = "char"
       /\ l.pend - l.p >= BulkDigits
       /\ ToLimb(step - l.counter) >= BulkDigits
       /\ ToLimb(c.max_digits - l.digits) >= BulkDigits
    THEN <<"bulk", parse_eight_digits(Span(c, l), l)>>
    ELSE <<"one", l>>

\* parse_one without the test counter < step.
parse_one_no_step_test(c, l) ==
    IF l.p # l.pend /\ l.digits < c.max_digits
    THEN <<"one", parse_one_digit(Span(c, l), l)>>
    ELSE <<"fold", l>>

\* One test, and one iteration, of the loop of parse_one_digit, lines
\* 335-338 and 382-385.
parse_one(c, l) ==
    IF l.counter < step /\ l.p # l.pend /\ l.digits < c.max_digits
    THEN <<"one", parse_one_digit(Span(c, l), l)>>
    ELSE <<"fold", l>>

\* parse_fold that looks for truncated digits in its own span only.
parse_fold_own_span(c, l) ==
    LET added == [l EXCEPT !.result =
                     add_native(l.result,
                                ToLimb(powers_of_ten_uint64[l.counter]), l.value)]
    IN  IF l.digits = c.max_digits
        THEN <<"done", IF is_truncated(Span(c, l), l.p)
                       THEN round_up_bigint(added) ELSE added>>
        ELSE <<"loop", [added EXCEPT !.counter = 0, !.value = 0]>>

\* if (digits == max_digits) ... else ..., lines 340-360 and 386-402
parse_fold(c, l) ==
    LET added == [l EXCEPT !.result =
                     add_native(l.result,
                                ToLimb(powers_of_ten_uint64[l.counter]), l.value)]
        truncated ==
            \/ is_truncated(Span(c, l), l.p)
            \/ /\ l.span = "integer"
               /\ ~c.fraction_null
               /\ is_truncated(c.fraction, 1)
    IN  IF l.digits = c.max_digits
        THEN <<"done", IF truncated THEN round_up_bigint(added) ELSE added>>
        ELSE <<"loop", [added EXCEPT !.counter = 0, !.value = 0]>>

\* if (num.fraction.ptr != nullptr), lines 364-371
parse_fraction(c, l) ==
    IF ~c.fraction_null
    THEN <<"loop", [l EXCEPT !.span = "fraction",
                             !.p = IF l.digits = 0
                                   THEN skip_zeros(c.fraction, 1) ELSE 1,
                             !.pend = Len(c.fraction) + 1]>>
    ELSE <<"tail", l>>

\* if (counter != 0), lines 406-409
parse_tail(c, l) ==
    IF l.counter # 0
    THEN <<"done", [l EXCEPT !.result =
                       add_native(l.result,
                                  ToLimb(powers_of_ten_uint64[l.counter]),
                                  l.value)]>>
    ELSE <<"done", l>>

\* The step of parse_mantissa at the position at.
parse_step(c, at, l) ==
    CASE at = "call"     -> parse_begin(c)
      [] at = "loop"     -> parse_loop(c, l)
      [] at = "bulk"     -> parse_bulk(c, l)
      [] at = "one"      -> parse_one(c, l)
      [] at = "fold"     -> parse_fold(c, l)
      [] at = "fraction" -> parse_fraction(c, l)
      [] at = "tail"     -> parse_tail(c, l)

\* parse_mantissa run to its return: the big integer and the digit count.
RECURSIVE parse_run(_, _, _)
parse_run(c, at, l) ==
    IF at = "done" THEN [result |-> l.result, digits |-> l.digits]
    ELSE LET n == parse_step(c, at, l) IN parse_run(c, n[1], n[2])

parse_mantissa(c) == parse_run(c, "call", NoFrame)

(***************************************************************************)
(* Calls of parse_mantissa.                                                *)
(***************************************************************************)
\* The longest integer and fraction spans drawn, and the largest max_digits.
MaxIntegerLen == 5
MaxFractionLen == 3
MaxMaxDigits == 5

\* The digits the spans are drawn from.
ParseDigits == {0, 1, 9}

DigitSeqs(digits, n) == UNION {[1 .. k -> digits] : k \in 0 .. n}

\* UC is char, or a wider character type.
CharTypes == {"char", "wide"}

IsParseCall(c) ==
    \E uc \in CharTypes, i \in DigitSeqs(ParseDigits, MaxIntegerLen),
       f \in DigitSeqs(ParseDigits, MaxFractionLen), fnull \in BOOLEAN,
       md \in 1 .. MaxMaxDigits :
        /\ fnull => f = <<>>
        /\ c = [op |-> "parse_mantissa", uc |-> uc, integer |-> i,
                fraction |-> f, fraction_null |-> fnull, max_digits |-> md]

\* The locals after a step, and what parse_mantissa returns at its end.
Stepped(n) ==
    /\ pc' = n[1]
    /\ frame' = n[2]
    /\ ret' = IF n[1] = "done"
              THEN [result |-> n[2].result, digits |-> n[2].digits]
              ELSE ret
    /\ UNCHANGED call

Parse_begin ==
    /\ pc = "call"
    /\ call.op = "parse_mantissa"
    /\ Stepped(parse_begin(call))

Parse_loop ==
    /\ pc = "loop"
    /\ call.op = "parse_mantissa"
    /\ Stepped(parse_loop(call, frame))

Parse_bulk ==
    /\ pc = "bulk"
    /\ call.op = "parse_mantissa"
    /\ Stepped(parse_bulk(call, frame))

Parse_one ==
    /\ pc = "one"
    /\ call.op = "parse_mantissa"
    /\ Stepped(parse_one(call, frame))

Parse_fold ==
    /\ pc = "fold"
    /\ call.op = "parse_mantissa"
    /\ Stepped(parse_fold(call, frame))

Parse_fraction ==
    /\ pc = "fraction"
    /\ call.op = "parse_mantissa"
    /\ Stepped(parse_fraction(call, frame))

Parse_tail ==
    /\ pc = "tail"
    /\ call.op = "parse_mantissa"
    /\ Stepped(parse_tail(call, frame))

InitParse == pc = "call" /\ ret = NoRet /\ frame = NoFrame /\ IsParseCall(call)
NextParse ==
    \/ Parse_begin \/ Parse_loop \/ Parse_bulk \/ Parse_one
    \/ Parse_fold \/ Parse_fraction \/ Parse_tail
SpecParse == InitParse /\ [][NextParse]_vars

\* parse_mantissa is a sequential function: a call that can take a step
\* takes it.
SpecParseLive == InitParse /\ [][NextParse]_vars /\ WF_vars(NextParse)

(***************************************************************************)
(* Claims about parse_mantissa.                                            *)
(***************************************************************************)
\* The number a sequence of digits denotes.
RECURSIVE DigitsValue(_)
DigitsValue(s) ==
    IF s = <<>> THEN 0
    ELSE DigitsValue(SubSeq(s, 1, Len(s) - 1)) * 10 + s[Len(s)]

\* A sequence of digits without its leading zeros.
RECURSIVE StripZeros(_)
StripZeros(s) ==
    IF s # <<>> /\ s[1] = 0 THEN StripZeros(Tail(s)) ELSE s

\* The significant digits of integer || fraction: the leading zeros of the
\* integer span skipped, and those of the fraction span skipped exactly when
\* no digit of the integer span is left.
Significant(c) ==
    IF StripZeros(c.integer) = <<>> THEN StripZeros(c.fraction)
    ELSE StripZeros(c.integer) \o c.fraction

\* The digits retained, and whether a digit that is not zero follows them.
Retained(c) ==
    SubSeq(Significant(c), 1,
           IF Len(Significant(c)) < c.max_digits
           THEN Len(Significant(c)) ELSE c.max_digits)

Dropped(c) ==
    \E i \in Len(Retained(c)) + 1 .. Len(Significant(c)) : Significant(c)[i] # 0

\* C10: parse_mantissa leaves the big integer equal to the number the first
\* min(max_digits, n) significant digits denote, and digits equal to that
\* count; when max_digits digits were retained and a remaining digit is not
\* zero, the big integer is also multiplied by 10 and incremented by 1, and
\* digits incremented by 1; when every remaining digit is zero, neither.
C10_ParseMantissa ==
    (pc = "done" /\ call.op = "parse_mantissa") =>
        IF Len(Retained(call)) = call.max_digits /\ Dropped(call)
        THEN /\ ret.result = DigitsValue(Retained(call)) * 10 + 1
             /\ ret.digits = Len(Retained(call)) + 1
        ELSE /\ ret.result = DigitsValue(Retained(call))
             /\ ret.digits = Len(Retained(call))

\* max_digits digits were retained from both spans, a digit of the fraction
\* span that is not zero was dropped, and the big integer was rounded up.
C10_Witness ==
    /\ pc = "done" /\ call.op = "parse_mantissa"
    /\ Len(StripZeros(call.integer)) \in 1 .. call.max_digits - 1
    /\ Len(Retained(call)) = call.max_digits /\ Dropped(call)
    /\ call.max_digits > step
    /\ ret.digits = call.max_digits + 1
    /\ ret.result = DigitsValue(Retained(call)) * 10 + 1

(***************************************************************************)
(* digit_comparison.hpp: the extended-precision float and its rounding.    *)
(*                                                                         *)
(* adjusted_mantissa is [mantissa, power2]; its mantissa, a std::uint64_t, *)
(* has MantissaBits bits.  binary_format<T> is a format of                 *)
(* mantissa_explicit_bits + 1 significant bits whose exponent field runs   *)
(* from 0 (denormal) to infinite_power; a float is its bit pattern.        *)
(***************************************************************************)
\* The width of adjusted_mantissa::mantissa in the model (64 in the code).
MantissaBits == 5

MantissaMod == 2 ^ MantissaBits

\* The wrap of a std::uint64_t mantissa.
ToMantissa(v) == v % MantissaMod

\* binary_format<T>::mantissa_explicit_bits()
mantissa_explicit_bits == 2

\* binary_format<T>::minimum_exponent()
minimum_exponent == -1

\* binary_format<T>::infinite_power()
infinite_power == 7

\* binary_format<T>::max_digits()
format_max_digits == 5

\* invalid_am_bias
invalid_am_bias == -32768

\* int32_t bias = mantissa_explicit_bits() - minimum_exponent()
bias == mantissa_explicit_bits - minimum_exponent

\* binary_format<T>::hidden_bit_mask(), mantissa_mask(), and exponent_mask()
\* shifted down to the exponent field.
hidden_bit_mask == 2 ^ mantissa_explicit_bits
mantissa_mask == 2 ^ mantissa_explicit_bits - 1

adjusted_mantissa(mantissa, power2) == [mantissa |-> mantissa, power2 |-> power2]

\* a | b on std::uint64_t
RECURSIVE BitOr(_, _)
BitOr(a, b) ==
    IF a = 0 THEN b
    ELSE IF b = 0 THEN a
    ELSE 2 * BitOr(a \div 2, b \div 2) + (IF a % 2 = 1 \/ b % 2 = 1 THEN 1 ELSE 0)

\* a & ~(uint64_t(1) << n)
ClearBit(a, n) == IF (a \div 2 ^ n) % 2 = 1 THEN a - 2 ^ n ELSE a

\* round_nearest_tie_even with is_above holding at the halfway point too.
round_nearest_tie_even_above_at_halfway(am, shift, decide) ==
    LET truncated_bits == am.mantissa % (2 ^ shift)
        halfway == IF shift = 0 THEN 0 ELSE 2 ^ (shift - 1)
        is_above == truncated_bits >= halfway
        is_halfway == truncated_bits = halfway
        mantissa == IF shift = MantissaBits THEN 0 ELSE am.mantissa \div (2 ^ shift)
        is_odd == mantissa % 2 = 1
        up == IF decide.kind = "positive"
              THEN \/ is_above
                   \/ (is_halfway /\ decide.truncated)
                   \/ (is_odd /\ is_halfway)
              ELSE IF decide.ord > 0 THEN TRUE
              ELSE IF decide.ord < 0 THEN FALSE
              ELSE is_odd
    IN  adjusted_mantissa(ToMantissa(mantissa + (IF up THEN 1 ELSE 0)),
                          am.power2 + shift)

\* round_nearest_tie_even with the halfway point taken as below it.
round_nearest_tie_even_no_tie(am, shift, decide) ==
    LET truncated_bits == am.mantissa % (2 ^ shift)
        halfway == IF shift = 0 THEN 0 ELSE 2 ^ (shift - 1)
        is_above == truncated_bits > halfway
        mantissa == IF shift = MantissaBits THEN 0 ELSE am.mantissa \div (2 ^ shift)
        up == IF decide.kind = "positive" THEN is_above
              ELSE decide.ord > 0
    IN  adjusted_mantissa(ToMantissa(mantissa + (IF up THEN 1 ELSE 0)),
                          am.power2 + shift)

\* round_nearest_tie_even(am, shift, cb); decide is the callback cb: the
\* lambda of positive_digit_comp, which captures truncated, or that of
\* negative_digit_comp, which captures ord.
round_nearest_tie_even(am, shift, decide) ==
    LET mask == IF shift = MantissaBits THEN MantissaMod - 1 ELSE 2 ^ shift - 1
        halfway == IF shift = 0 THEN 0 ELSE 2 ^ (shift - 1)
        truncated_bits == am.mantissa % (mask + 1)
        is_above == truncated_bits > halfway
        is_halfway == truncated_bits = halfway
        mantissa == IF shift = MantissaBits THEN 0 ELSE am.mantissa \div (2 ^ shift)
        is_odd == mantissa % 2 = 1
        up == IF decide.kind = "positive"
              THEN \/ is_above
                   \/ (is_halfway /\ decide.truncated)
                   \/ (is_odd /\ is_halfway)
              ELSE IF decide.ord > 0 THEN TRUE
              ELSE IF decide.ord < 0 THEN FALSE
              ELSE is_odd
    IN  adjusted_mantissa(ToMantissa(mantissa + (IF up THEN 1 ELSE 0)),
                          am.power2 + shift)

\* round_down(am, shift)
round_down(am, shift) ==
    adjusted_mantissa(IF shift = MantissaBits THEN 0
                      ELSE am.mantissa \div (2 ^ shift),
                      am.power2 + shift)

\* The callback round is given: round_down, or round_nearest_tie_even with
\* one of the two lambdas.
Callback(cb, am, shift) ==
    IF cb.kind = "down" THEN round_down(am, shift)
    ELSE round_nearest_tie_even(am, shift, cb)

\* std::int32_t mantissa_shift = 64 - mantissa_explicit_bits() - 1
mantissa_shift == MantissaBits - mantissa_explicit_bits - 1

\* if (-am.power2 >= mantissa_shift): have a denormal float
round_is_denormal(am) == 0 - am.power2 >= mantissa_shift

\* round_shift without std::min<int32_t>(shift, 64).
round_shift_no_min(am) ==
    IF round_is_denormal(am) THEN 0 - am.power2 + 1 ELSE mantissa_shift

\* The shift round passes to its callback.
round_shift(am) ==
    IF round_is_denormal(am)
    THEN LET shift == 0 - am.power2 + 1
         IN  IF shift < MantissaBits THEN shift ELSE MantissaBits
    ELSE mantissa_shift

\* The shifts of the calls of cb in one call of round: the call of line 129,
\* after which round returns, or the call of line 136.
round_callback_shifts(am) == <<round_shift(am)>>

\* round that leaves the hidden bit in the mantissa of a normal float.
round_no_mask(am, cb) ==
    LET a == Callback(cb, am, round_shift(am))
    IN  IF round_is_denormal(am)
        THEN adjusted_mantissa(a.mantissa,
                 IF a.mantissa < 2 ^ mantissa_explicit_bits THEN 0 ELSE 1)
        ELSE LET carried == IF a.mantissa >= 2 * 2 ^ mantissa_explicit_bits
                            THEN adjusted_mantissa(2 ^ mantissa_explicit_bits,
                                                   a.power2 + 1)
                            ELSE a
             IN  IF carried.power2 >= infinite_power
                 THEN adjusted_mantissa(0, infinite_power)
                 ELSE carried

\* round without the clamp to the infinite power.
round_no_infinite(am, cb) ==
    LET a == Callback(cb, am, round_shift(am))
    IN  IF round_is_denormal(am)
        THEN adjusted_mantissa(a.mantissa,
                 IF a.mantissa < 2 ^ mantissa_explicit_bits THEN 0 ELSE 1)
        ELSE LET carried == IF a.mantissa >= 2 * 2 ^ mantissa_explicit_bits
                            THEN adjusted_mantissa(2 ^ mantissa_explicit_bits,
                                                   a.power2 + 1)
                            ELSE a
             IN  adjusted_mantissa(ClearBit(carried.mantissa,
                                            mantissa_explicit_bits),
                                   carried.power2)

\* round<T>(am, cb)
round(am, cb) ==
    LET a == Callback(cb, am, round_shift(am))
    IN  IF round_is_denormal(am)
        THEN adjusted_mantissa(a.mantissa,
                 IF a.mantissa < 2 ^ mantissa_explicit_bits THEN 0 ELSE 1)
        ELSE LET carried == IF a.mantissa >= 2 * 2 ^ mantissa_explicit_bits
                            THEN adjusted_mantissa(2 ^ mantissa_explicit_bits,
                                                   a.power2 + 1)
                            ELSE a
                 masked == adjusted_mantissa(
                               ClearBit(carried.mantissa, mantissa_explicit_bits),
                               carried.power2)
             IN  IF masked.power2 >= infinite_power
                 THEN adjusted_mantissa(0, infinite_power)
                 ELSE masked

\* to_float(false, am, value): the bit pattern of value.
to_float(am) ==
    BitOr(am.mantissa, am.power2 * 2 ^ mantissa_explicit_bits)

\* to_extended(value)
to_extended(bits) ==
    LET exponent == (bits \div 2 ^ mantissa_explicit_bits) % (infinite_power + 1)
    IN  IF exponent = 0
        THEN adjusted_mantissa(bits % (mantissa_mask + 1), 1 - bias)
        ELSE adjusted_mantissa(
                 BitOr(bits % (mantissa_mask + 1), hidden_bit_mask),
                 exponent - bias)

\* to_extended_halfway(value)
to_extended_halfway(bits) ==
    LET am == to_extended(bits)
    IN  adjusted_mantissa(ToMantissa(ToMantissa(am.mantissa * 2) + 1),
                          am.power2 - 1)

\* while (mantissa >= base) { mantissa /= base; exponent += inc; }
RECURSIVE scientific_exponent_loop(_, _, _, _)
scientific_exponent_loop(mantissa, exponent, base, inc) ==
    IF mantissa >= base
    THEN scientific_exponent_loop(mantissa \div base, exponent + inc, base, inc)
    ELSE <<mantissa, exponent>>

\* scientific_exponent(num)
scientific_exponent(num) ==
    LET by4 == scientific_exponent_loop(num.mantissa, num.exponent, 10000, 4)
        by2 == scientific_exponent_loop(by4[1], by4[2], 100, 2)
        by1 == scientific_exponent_loop(by2[1], by2[2], 10, 1)
    IN  by1[2]

(***************************************************************************)
(* bigint, by the number it holds.  The calls below stay within its        *)
(* capacity, so each BOOST_CHARCONV_ASSERT(op) performs op and passes.     *)
(***************************************************************************)
\* bigint::pow10(exp), pow5(exp), pow2(exp)
bigint_pow10(big, exp) == big * 10 ^ exp
bigint_pow5(big, exp) == big * 5 ^ exp
bigint_pow2(big, exp) == big * 2 ^ exp

\* bigint::bit_length()
RECURSIVE bigint_bit_length(_)
bigint_bit_length(big) ==
    IF big = 0 THEN 0 ELSE 1 + bigint_bit_length(big \div 2)

\* bigint::hi64(truncated): the leading bits of the number, its first bit
\* at the top of the word, and whether a bit below them is set.
bigint_hi64(big) ==
    LET length == bigint_bit_length(big)
    IN  IF length <= MantissaBits
        THEN [value |-> IF big = 0 THEN 0 ELSE big * 2 ^ (MantissaBits - length),
              truncated |-> FALSE]
        ELSE [value |-> big \div 2 ^ (length - MantissaBits),
              truncated |-> big % 2 ^ (length - MantissaBits) # 0]

\* bigint::compare(other)
bigint_compare(big, other) ==
    IF big > other THEN 1 ELSE IF big < other THEN -1 ELSE 0

\* positive_digit_comp with hi64's truncated flag left out of the lambda.
positive_digit_comp_no_truncated(bigmant, exponent) ==
    LET scaled == bigint_pow10(bigmant, exponent)
        high == bigint_hi64(scaled)
        answer == adjusted_mantissa(high.value,
                      bigint_bit_length(scaled) - MantissaBits + bias)
    IN  round(answer, [kind |-> "positive", truncated |-> FALSE])

\* positive_digit_comp<T>(bigmant, exponent)
positive_digit_comp(bigmant, exponent) ==
    LET scaled == bigint_pow10(bigmant, exponent)
        high == bigint_hi64(scaled)
        answer == adjusted_mantissa(high.value,
                      bigint_bit_length(scaled) - MantissaBits + bias)
    IN  round(answer, [kind |-> "positive", truncated |-> high.truncated])

\* negative_digit_comp's locals with the power of two given to the digits
\* of the smaller binary exponent.
negative_digit_comp_locals_scale_smaller(bigmant, am, exponent) ==
    LET real_exp == exponent
        am_b == round(am, [kind |-> "down"])
        b == to_float(am_b)
        theor == to_extended_halfway(b)
        theor_exp == theor.power2
        pow2_exp == theor_exp - real_exp
        pow5_exp == 0 - real_exp
        theor_pow5 == IF pow5_exp # 0 THEN bigint_pow5(theor.mantissa, pow5_exp)
                      ELSE theor.mantissa
        theor_digits == IF pow2_exp < 0 THEN bigint_pow2(theor_pow5, 0 - pow2_exp)
                        ELSE theor_pow5
        real_digits == IF pow2_exp > 0 THEN bigint_pow2(bigmant, pow2_exp)
                       ELSE bigmant
    IN  [am_b |-> am_b, b |-> b, theor |-> theor, pow2_exp |-> pow2_exp,
         pow5_exp |-> pow5_exp, theor_digits |-> theor_digits,
         real_digits |-> real_digits,
         ord |-> bigint_compare(real_digits, theor_digits)]

\* The locals of negative_digit_comp<T>(bigmant, am, exponent) at its
\* comparison.
negative_digit_comp_locals(bigmant, am, exponent) ==
    LET real_exp == exponent
        am_b == round(am, [kind |-> "down"])
        b == to_float(am_b)
        theor == to_extended_halfway(b)
        theor_exp == theor.power2
        pow2_exp == theor_exp - real_exp
        pow5_exp == 0 - real_exp
        theor_pow5 == IF pow5_exp # 0 THEN bigint_pow5(theor.mantissa, pow5_exp)
                      ELSE theor.mantissa
        theor_digits == IF pow2_exp > 0 THEN bigint_pow2(theor_pow5, pow2_exp)
                        ELSE theor_pow5
        real_digits == IF pow2_exp < 0 THEN bigint_pow2(bigmant, 0 - pow2_exp)
                       ELSE bigmant
    IN  [am_b |-> am_b, b |-> b, theor |-> theor, pow2_exp |-> pow2_exp,
         pow5_exp |-> pow5_exp, theor_digits |-> theor_digits,
         real_digits |-> real_digits,
         ord |-> bigint_compare(real_digits, theor_digits)]

\* negative_digit_comp that rounds am to nearest by its own truncated bits.
negative_digit_comp_no_compare(bigmant, am, exponent) ==
    round(am, [kind |-> "positive", truncated |-> FALSE])

\* negative_digit_comp<T>(bigmant, am, exponent)
negative_digit_comp(bigmant, am, exponent) ==
    round(am, [kind |-> "negative",
               ord |-> negative_digit_comp_locals(bigmant, am, exponent).ord])

\* The arguments digit_comp gives parse_mantissa.
MantissaCall(num) ==
    [op |-> "parse_mantissa", uc |-> num.uc, integer |-> num.integer,
     fraction |-> num.fraction, fraction_null |-> num.fraction_null,
     max_digits |-> format_max_digits]

\* The locals of digit_comp<T, UC>(num, am) at its branch.
digit_comp_locals(num, am) ==
    LET sci_exp == scientific_exponent(num)
        parsed == parse_mantissa(MantissaCall(num))
    IN  [am |-> adjusted_mantissa(am.mantissa, am.power2 - invalid_am_bias),
         sci_exp |-> sci_exp, digits |-> parsed.digits,
         bigmant |-> parsed.result,
         exponent |-> sci_exp + 1 - parsed.digits]

\* The locals of digit_comp at its return: those at its branch, and on the
\* negative path those of negative_digit_comp.
digit_comp_frame(num, am) ==
    LET l == digit_comp_locals(num, am)
    IN  [am |-> l.am, sci_exp |-> l.sci_exp, digits |-> l.digits,
         bigmant |-> l.bigmant, exponent |-> l.exponent,
         negative |-> IF l.exponent < 0
                      THEN negative_digit_comp_locals(l.bigmant, l.am, l.exponent)
                      ELSE NoFrame]

\* digit_comp<T, UC>(num, am)
digit_comp(num, am) ==
    LET l == digit_comp_locals(num, am)
    IN  IF l.exponent >= 0
        THEN positive_digit_comp(l.bigmant, l.exponent)
        ELSE negative_digit_comp(l.bigmant, l.am, l.exponent)

(***************************************************************************)
(* Calls of round and of digit_comp.                                       *)
(*                                                                         *)
(* num is what the tokenizer leaves of a decimal i.f e x: the two digit    *)
(* spans, the digits as one integer, and the decimal exponent less the     *)
(* length of the fraction.  am is the caller's approximation of num: the   *)
(* number lies between b, am rounded down, and b+u, the next float.        *)
(***************************************************************************)
\* The digits of n, most significant first.
RECURSIVE ToDigits(_)
ToDigits(n) == IF n < 10 THEN <<n>> ELSE Append(ToDigits(n \div 10), n % 10)

\* The three digits of n < 1000.
Pad3(n) == <<n \div 100, (n \div 10) % 10, n % 10>>

\* The largest integer part drawn.
MaxInteger == 70

IntegerSpans ==
    {<<>>} \cup {ToDigits(n) : n \in 0 .. MaxInteger}
           \cup {<<0>> \o ToDigits(n) : n \in 1 .. 2}

\* The fractions at and beside the multiples of 1/4 and 1/8, among them
\* those of one digit, and the eighths followed and preceded by digits
\* beyond format_max_digits.
FractionSpans ==
    DigitSeqs(0 .. 9, 1)
    \cup {Tail(Pad3((25 * j + d) % 100)) : j \in 0 .. 3, d \in {-1, 0, 1}}
    \cup {Pad3(125 * j + d) : j \in 1 .. 7, d \in {-1, 0, 1}}
    \cup {Pad3(125 * j) \o t : j \in 0 .. 7, t \in {<<0, 0, 0>>, <<0, 0, 1>>}}
    \cup {Pad3(125 * j - 1) \o <<9, 9, 9>> : j \in 1 .. 7}

\* The decimal exponents drawn; one that is not zero goes with an integer
\* part of at most one digit.
Exponents == {-1, 0, 1}

\* What the tokenizer leaves of the decimal i.f e x.
Tokens(uc, i, f, fnull, x) ==
    [uc |-> uc, integer |-> i, fraction |-> f, fraction_null |-> fnull,
     mantissa |-> DigitsValue(i \o f), exponent |-> x - Len(f)]

\* The bit pattern of the infinite float, and the floats as the numbers
\* they denote, in units of the smallest denormal; the infinite float
\* stands where the next power of two would.
InfiniteBits == infinite_power * 2 ^ mantissa_explicit_bits

Units(bits) ==
    LET exponent == bits \div 2 ^ mantissa_explicit_bits
        mantissa == bits % 2 ^ mantissa_explicit_bits
    IN  IF exponent = 0 THEN mantissa
        ELSE (mantissa + hidden_bit_mask) * 2 ^ (exponent - 1)

\* The largest number the comparisons of the decimal against a float reach.
Cap == 2 ^ 30

SatMul(a, b) == IF b # 0 /\ a > Cap \div b THEN Cap ELSE a * b

\* The sign of mantissa * 10^exponent - halves * 2^(-bias): the decimal
\* against a number of half units.
CompareDecimal(mantissa, exponent, halves) ==
    LET lhs == IF exponent >= 0 THEN mantissa * 10 ^ exponent * 2 ^ bias
               ELSE mantissa * 2 ^ bias
        rhs == IF exponent >= 0 THEN halves
               ELSE SatMul(halves, 10 ^ (0 - exponent))
    IN  IF lhs > rhs THEN 1 ELSE IF lhs < rhs THEN -1 ELSE 0

\* The approximations: a mantissa with its top bit set, and below the bits
\* of a normal float all zeros or all ones, and a power of two from the
\* denormals to the infinite float.
Approximations ==
    {adjusted_mantissa(m, p) :
        m \in {n \in MantissaMod \div 2 .. MantissaMod - 1 :
                  n % 2 ^ mantissa_shift \in {0, 2 ^ mantissa_shift - 1}},
        p \in 1 - MantissaBits .. infinite_power - mantissa_shift}

\* The approximations of which each float is the b.
ApproximationsOf ==
    [b \in 0 .. InfiniteBits |->
        {am \in Approximations : to_float(round(am, [kind |-> "down"])) = b}]

\* num lies between b and b+u.
Between(b, num) ==
    /\ CompareDecimal(num.mantissa, num.exponent, 2 * Units(b)) >= 0
    /\ b < InfiniteBits =>
           CompareDecimal(num.mantissa, num.exponent, 2 * Units(b + 1)) <= 0

\* The callbacks round is called with.
Callbacks ==
    {[kind |-> "down"]}
    \cup {[kind |-> "positive", truncated |-> t] : t \in BOOLEAN}
    \cup {[kind |-> "negative", ord |-> o] : o \in {-1, 0, 1}}

IsRoundCall(c) ==
    \E m \in 0 .. MantissaMod - 1,
       p \in 0 - MantissaBits - 2 .. infinite_power + 2,
       cb \in Callbacks :
        c = [op |-> "round", am |-> adjusted_mantissa(m, p), cb |-> cb]

IsDigitCall(c) ==
    \E uc \in CharTypes, i \in IntegerSpans, f \in FractionSpans,
       fnull \in BOOLEAN, x \in Exponents, b \in 0 .. InfiniteBits :
        /\ fnull => f = <<>>
        /\ x # 0 => Len(i) <= 1
        /\ DigitsValue(i \o f) # 0
        /\ Between(b, Tokens(uc, i, f, fnull, x))
        /\ \E am \in ApproximationsOf[b] :
               c = [op |-> "digit_comp", num |-> Tokens(uc, i, f, fnull, x),
                    am |-> adjusted_mantissa(am.mantissa,
                                             am.power2 + invalid_am_bias)]

Do_round ==
    /\ pc = "call"
    /\ call.op = "round"
    /\ ret' = round(call.am, call.cb)
    /\ frame' = [denormal |-> round_is_denormal(call.am),
                 shifts |-> round_callback_shifts(call.am),
                 shift |-> round_shift(call.am),
                 shifted |-> Callback(call.cb, call.am, round_shift(call.am))]
    /\ pc' = "done"
    /\ UNCHANGED call

Do_digit_comp ==
    /\ pc = "call"
    /\ call.op = "digit_comp"
    /\ ret' = digit_comp(call.num, call.am)
    /\ frame' = digit_comp_frame(call.num, call.am)
    /\ pc' = "done"
    /\ UNCHANGED call

InitDigit ==
    /\ pc = "call" /\ ret = NoRet /\ frame = NoFrame
    /\ (IsRoundCall(call) \/ IsDigitCall(call))
NextDigit == Do_round \/ Do_digit_comp
SpecDigit == InitDigit /\ [][NextDigit]_vars

\* Calls of round_nearest_tie_even, with the lambda of positive_digit_comp
\* or of negative_digit_comp.
IsTieEvenCall(c) ==
    \E m \in 0 .. MantissaMod - 1, p \in {0 - MantissaBits, 0, 1},
       s \in 0 .. MantissaBits, cb \in Callbacks :
        /\ cb.kind # "down"
        /\ c = [op |-> "round_nearest_tie_even", am |-> adjusted_mantissa(m, p),
                shift |-> s, decide |-> cb]

Do_round_nearest_tie_even ==
    /\ pc = "call"
    /\ call.op = "round_nearest_tie_even"
    /\ ret' = round_nearest_tie_even(call.am, call.shift, call.decide)
    /\ pc' = "done"
    /\ UNCHANGED <<call, frame>>

InitRound ==
    /\ pc = "call" /\ ret = NoRet /\ frame = NoFrame
    /\ (IsRoundCall(call) \/ IsTieEvenCall(call))
NextRound == Do_round \/ Do_round_nearest_tie_even
SpecRound == InitRound /\ [][NextRound]_vars

(***************************************************************************)
(* Claims about round and digit_comp.                                      *)
(***************************************************************************)
\* The largest finite float.
MaxFiniteBits == InfiniteBits - 1

\* The sign of the decimal num less the number of half units.
CompareNum(num, halves) == CompareDecimal(num.mantissa, num.exponent, halves)

\* The largest float that is at most num; the infinite float from the next
\* power of two on.
FloorFloat(num) ==
    CHOOSE b \in 0 .. InfiniteBits :
        /\ CompareNum(num, 2 * Units(b)) >= 0
        /\ b < InfiniteBits => CompareNum(num, 2 * Units(b + 1)) < 0

\* Of b and b+u the one num is nearer to, and the even one at b+h.
NearestOf(b, num) ==
    IF b = InfiniteBits THEN b
    ELSE LET ord == CompareNum(num, Units(b) + Units(b + 1))
         IN  IF ord < 0 THEN b
             ELSE IF ord > 0 THEN b + 1
             ELSE IF b % 2 = 0 THEN b ELSE b + 1

\* The float nearest to num, the even one of two equally near.
NearestFloat(num) == NearestOf(FloorFloat(num), num)

\* A float as round returns it: the mantissa without its hidden bit, and
\* the infinite float with mantissa 0.
IsFloat(am) ==
    /\ am.mantissa \in 0 .. mantissa_mask
    /\ am.power2 \in 0 .. infinite_power
    /\ am.power2 = infinite_power => am.mantissa = 0

DigitDone == pc = "done" /\ call.op = "digit_comp"

\* b of the call: its approximation, the bias removed, rounded down.
CallB == to_float(round(frame.am, [kind |-> "down"]))

\* C1: on the positive path (exponent >= 0) digit_comp returns the float
\* nearest to the decimal, and of two equally near floats the one whose
\* mantissa is even.
C1_PositiveNearest ==
    (DigitDone /\ frame.exponent >= 0) =>
        /\ IsFloat(ret)
        /\ to_float(ret) = NearestFloat(call.num)

\* A decimal halfway between two floats, on the positive path, returned as
\* the lower, even one.
C1_Witness ==
    /\ DigitDone /\ frame.exponent >= 0
    /\ FloorFloat(call.num) < MaxFiniteBits
    /\ CompareNum(call.num, Units(FloorFloat(call.num))
                            + Units(FloorFloat(call.num) + 1)) = 0
    /\ to_float(ret) = FloorFloat(call.num)
    /\ ret.mantissa % 2 = 0

\* C2: on the negative path (exponent < 0), for every approximation am,
\* with b the float am rounds down to, digit_comp returns b when the decimal
\* is below b+h, b+u when it is above b+h, and of the two the one whose
\* mantissa is even when it is b+h.
C2_NegativeCompare ==
    (DigitDone /\ frame.exponent < 0 /\ CallB < InfiniteBits) =>
        to_float(ret) = NearestOf(CallB, call.num)

\* A decimal above b+h, on the negative path, returned as b+u.
C2_Witness ==
    /\ DigitDone /\ frame.exponent < 0 /\ CallB < MaxFiniteBits
    /\ CompareNum(call.num, Units(CallB) + Units(CallB + 1)) > 0
    /\ to_float(ret) = CallB + 1

\* The infinite float as round returns it.
IsInfinite(am) == am.power2 = infinite_power /\ am.mantissa = 0

\* C3, as stated: for every decimal above the largest finite float,
\* digit_comp returns the infinite float.
C3_OverflowAboveMaxFinite ==
    (DigitDone /\ CompareNum(call.num, 2 * Units(MaxFiniteBits)) > 0) =>
        IsInfinite(ret)

\* C3, amended: for every decimal at or above the point halfway between the
\* largest finite float and the next power of two, digit_comp returns the
\* infinite float; for one above the largest finite float and below that
\* point it returns the largest finite float.
C3_OverflowFromHalfway ==
    DigitDone =>
        /\ CompareNum(call.num, Units(MaxFiniteBits) + Units(InfiniteBits)) >= 0
               => IsInfinite(ret)
        /\ (/\ CompareNum(call.num, 2 * Units(MaxFiniteBits)) > 0
            /\ CompareNum(call.num, Units(MaxFiniteBits) + Units(InfiniteBits)) < 0)
               => (~IsInfinite(ret) /\ to_float(ret) = MaxFiniteBits)

\* A decimal at that halfway point, returned as the infinite float.
C3_Witness ==
    /\ DigitDone
    /\ CompareNum(call.num, Units(MaxFiniteBits) + Units(InfiniteBits)) = 0
    /\ IsInfinite(ret)

\* C4: round and digit_comp return 0 <= power2 <= infinite_power; on its
\* denormal branch round shifts by min(1 - power2, 64), the width of the
\* mantissa, and returns power2 1 when the shifted and rounded mantissa has
\* reached 2^mantissa_explicit_bits and power2 0 otherwise.
C4_RoundPower2 ==
    (pc = "done" /\ call.op \in {"round", "digit_comp"}) =>
        /\ 0 <= ret.power2 /\ ret.power2 <= infinite_power
        /\ (call.op = "round" /\ call.am.power2 + mantissa_shift <= 0) =>
               /\ frame.denormal
               /\ frame.shift = (IF 1 - call.am.power2 < MantissaBits
                                 THEN 1 - call.am.power2 ELSE MantissaBits)
               /\ ret.mantissa = frame.shifted.mantissa
               /\ ret.power2 = (IF ret.mantissa >= 2 ^ mantissa_explicit_bits
                                THEN 1 ELSE 0)
        /\ (call.op = "round" /\ call.am.power2 + mantissa_shift > 0) =>
               ~frame.denormal

\* round, on its denormal branch, rounding up to the smallest normal float.
C4_Witness ==
    /\ pc = "done" /\ call.op = "round"
    /\ frame.denormal
    /\ frame.shift = 1 - call.am.power2
    /\ ret.mantissa = 2 ^ mantissa_explicit_bits
    /\ ret.power2 = 1

RoundDone == pc = "done" /\ call.op = "round"

\* C11, as stated: after round returns, on the denormal branch and on the
\* normal branch, the mantissa is below 2^mantissa_explicit_bits.
C11_HiddenBitMasked ==
    RoundDone => ret.mantissa < 2 ^ mantissa_explicit_bits

\* C11, amended: after round returns on the normal branch the mantissa is
\* below 2^mantissa_explicit_bits; on the denormal branch, which returns
\* before the mask, it is at most 2^mantissa_explicit_bits, and equal to it
\* exactly when power2 is 1.
C11_HiddenBitMaskedNormal ==
    RoundDone =>
        /\ ~frame.denormal => ret.mantissa < 2 ^ mantissa_explicit_bits
        /\ frame.denormal =>
               /\ ret.mantissa <= 2 ^ mantissa_explicit_bits
               /\ ret.mantissa = 2 ^ mantissa_explicit_bits <=> ret.power2 = 1

\* round, on its normal branch, masking the hidden bit its callback left.
C11_Witness ==
    /\ RoundDone /\ ~frame.denormal
    /\ frame.shifted.mantissa >= 2 ^ mantissa_explicit_bits
    /\ ret.power2 < infinite_power
    /\ ret.mantissa < 2 ^ mantissa_explicit_bits

\* The digits of b+h after theor_digits.pow5(-real_exp).
TheorPow5 == frame.negative.theor.mantissa * 5 ^ (0 - frame.exponent)

\* C12, as stated: on the negative path, of real_digits (binary exponent
\* real_exp) and theor_digits (binary exponent theor_exp) the one of the
\* smaller exponent is multiplied by 2^|theor_exp - real_exp| and the other
\* is left as it is; when the exponents are equal neither is multiplied.
C12_ScaleSmallerExponent ==
    (DigitDone /\ frame.exponent < 0) =>
        LET theor_exp == frame.negative.theor.power2
            real_exp == frame.exponent
        IN  /\ theor_exp < real_exp =>
                   /\ frame.negative.theor_digits
                          = TheorPow5 * 2 ^ (real_exp - theor_exp)
                   /\ frame.negative.real_digits = frame.bigmant
            /\ real_exp < theor_exp =>
                   /\ frame.negative.real_digits
                          = frame.bigmant * 2 ^ (theor_exp - real_exp)
                   /\ frame.negative.theor_digits = TheorPow5
            /\ theor_exp = real_exp =>
                   /\ frame.negative.theor_digits = TheorPow5
                   /\ frame.negative.real_digits = frame.bigmant

\* C12, amended: of the two the one of the larger binary exponent is
\* multiplied by 2^|theor_exp - real_exp|: theor_digits when theor_exp is
\* above real_exp, real_digits when it is below; the other is left as it
\* is, and when the exponents are equal neither is multiplied.
C12_ScaleLargerExponent ==
    (DigitDone /\ frame.exponent < 0) =>
        LET theor_exp == frame.negative.theor.power2
            real_exp == frame.exponent
        IN  /\ theor_exp > real_exp =>
                   /\ frame.negative.theor_digits
                          = TheorPow5 * 2 ^ (theor_exp - real_exp)
                   /\ frame.negative.real_digits = frame.bigmant
            /\ real_exp > theor_exp =>
                   /\ frame.negative.real_digits
                          = frame.bigmant * 2 ^ (real_exp - theor_exp)
                   /\ frame.negative.theor_digits = TheorPow5
            /\ theor_exp = real_exp =>
                   /\ frame.negative.theor_digits = TheorPow5
                   /\ frame.negative.real_digits = frame.bigmant

\* The negative path with theor_exp above real_exp, and theor_digits
\* multiplied by the power of two.
C12_Witness ==
    /\ DigitDone /\ frame.exponent < 0
    /\ frame.negative.theor.power2 > frame.exponent
    /\ frame.negative.theor_digits
           = TheorPow5 * 2 ^ (frame.negative.theor.power2 - frame.exponent)
    /\ frame.negative.theor_digits # TheorPow5
    /\ frame.negative.real_digits = frame.bigmant

Decide(cb, is_odd, is_halfway, is_above) ==
    IF cb.kind = "positive"
    THEN is_above \/ (is_halfway /\ cb.truncated) \/ (is_odd /\ is_halfway)
    ELSE cb.ord > 0 \/ (cb.ord = 0 /\ is_odd)

\* C14: for every mantissa m, power2 p and shift s from 1 to 64, the width
\* of the mantissa, round_nearest_tie_even returns power2 = p + s and
\* mantissa = floor(m / 2^s) + 1 when decide(is_odd, is_halfway, is_above)
\* and floor(m / 2^s) otherwise, with d = m mod 2^s, is_above iff
\* d > 2^(s-1), is_halfway iff d = 2^(s-1), and is_odd the lowest bit of
\* floor(m / 2^s); at s = 64 the shifted mantissa is 0 and d is m.
C14_RoundNearestTieEven ==
    (pc = "done" /\ call.op = "round_nearest_tie_even" /\ call.shift >= 1) =>
        LET m == call.am.mantissa
            s == call.shift
            d == m % 2 ^ s
            shifted == m \div 2 ^ s
            up == Decide(call.decide, shifted % 2 = 1,
                         d = 2 ^ (s - 1), d > 2 ^ (s - 1))
        IN  /\ ret.power2 = call.am.power2 + s
            /\ ret.mantissa = shifted + (IF up THEN 1 ELSE 0)
            /\ s = MantissaBits => (shifted = 0 /\ d = m)

\* round_nearest_tie_even shifting by the whole width a mantissa that is
\* exactly halfway, rounded up by the truncated flag.
C14_Witness ==
    /\ pc = "done" /\ call.op = "round_nearest_tie_even"
    /\ call.shift = MantissaBits
    /\ call.am.mantissa = 2 ^ (MantissaBits - 1)
    /\ call.decide.kind = "positive" /\ call.decide.truncated
    /\ ret.mantissa = 1
    /\ ret.power2 = call.am.power2 + MantissaBits

\* C17: round calls its callback exactly once, with a shift s such that
\* 64 - mantissa_explicit_bits - 1 <= s <= 64, 64 being the width of the
\* mantissa: never with s = 0 and never with s above the width, whatever
\* power2 is.
C17_CallbackShift ==
    RoundDone =>
        /\ Len(frame.shifts) = 1
        /\ frame.shifts[1] = frame.shift
        /\ MantissaBits - mantissa_explicit_bits - 1 <= frame.shifts[1]
        /\ frame.shifts[1] <= MantissaBits
        /\ frame.shifts[1] # 0

\* round given a power2 so low that 1 - power2 is above the width, and its
\* callback called with the width.
C17_Witness ==
    /\ RoundDone
    /\ 1 - call.am.power2 > MantissaBits
    /\ frame.shifts = <<MantissaBits>>

\* C15: parse_mantissa terminates: every call returns; an iteration of the
\* outer loop of either span that does not return has moved p forward by at
\* least one digit, and the iterations begun are at most as many as the
\* digits of the two spans.
C15_ParseTerminates ==
    /\ <>(pc = "done")
    /\ [][(pc = "fold" /\ pc' = "loop") => frame'.p > frame.entry]_vars
    /\ [](call.op = "parse_mantissa" /\ pc \notin {"call", "done"} =>
              frame.iterations <= Len(call.integer) + Len(call.fraction))

\* A call of parse_mantissa that has returned after an iteration of the loop
\* of the integer span and one of the loop of the fraction span.
C15_Witness ==
    /\ pc = "done" /\ call.op = "parse_mantissa"
    /\ frame.span = "fraction"
    /\ frame.iterations >= 2
    /\ frame.p = frame.pend

\* The digits of the group read so far: the last counter digits before p.
GroupDigits == SubSeq(Span(call, frame), frame.p - frame.counter, frame.p - 1)

\* C16: while parse_mantissa reads a group, counter <= step and
\* digits <= max_digits, so step - counter and max_digits - digits do not
\* wrap; counter is an index of powers_of_ten_uint64 where it is used as
\* one; and value is the number the digits of the group denote, below
\* 10^counter, a limb never having wrapped, the step of parse_eight_digits
\* included.
C16_GroupWithinLimb ==
    (call.op = "parse_mantissa" /\ pc \in {"bulk", "one", "fold", "tail"}) =>
        /\ frame.counter <= step
        /\ pc # "tail" => frame.digits <= call.max_digits
        /\ frame.counter \in DOMAIN powers_of_ten_uint64
        /\ ToLimb(powers_of_ten_uint64[frame.counter]) = 10 ^ frame.counter
        /\ frame.p - frame.counter >= 1
        /\ frame.value = DigitsValue(GroupDigits)
        /\ frame.value < 10 ^ frame.counter

\* parse_eight_digits about to add its digits to a group that has digits
\* already.
C16_Witness ==
    /\ call.op = "parse_mantissa" /\ pc = "bulk"
    /\ call.uc = "char"
    /\ frame.counter = BulkDigits /\ frame.value # 0
    /\ frame.pend - frame.p >= BulkDigits
    /\ step - frame.counter >= BulkDigits
    /\ call.max_digits - frame.digits >= BulkDigits

=============================================================================
